---- MODULE Spec2Model ----
(***************************************************************************)
(* Model of app.py, the monthly expense manager: the record store kept in  *)
(* my_expenses.xlsx (load_data, save_data, delete_data), the month filter, *)
(* the dashboard totals and the handlers of the entry form and of the      *)
(* delete button.  A workbook is a sequence of rows of cells; a DataFrame  *)
(* is a sequence of rows carrying their index label ix.                    *)
(***************************************************************************)
EXTENDS Integers, Sequences, FiniteSets, TLC

VARIABLES
    exists,       \* os.path.exists(FILE_PATH)
    file,         \* the rows of my_expenses.xlsx below the header, as cells
    op,           \* the last operation performed
    pre,          \* [exists, file] as they were when that operation started
    arg_index,    \* id_to_delete of the last delete, else -1
    arg_rec,      \* the values submitted with the last form, else NoRec
    ret,          \* what delete_data returned in the last operation
    saved,        \* save_data was called in the last operation
    wrote,        \* to_excel at line 47 or 57 ran in the last operation
    msg,          \* the last st.error / st.success of the handler
    selected,     \* sidebar: [year, month]
    all_data,     \* line 82, as of the end of the last script run
    filtered_df,  \* lines 85-92
    money_in,     \* line 104
    money_out,    \* line 105
    balance       \* line 106

vars == << exists, file, op, pre, arg_index, arg_rec, ret, saved, wrote, msg,
           selected, all_data, filtered_df, money_in, money_out, balance >>

----------------------------------------------------------------------------
(* Bounds of the model *)

MaxRows == 3

----------------------------------------------------------------------------
(* Cells and values *)

\* float('nan'): what pandas holds for a missing text value
NaN == "float(nan)"

\* pd.NaT
NaT == [y |-> 0, m |-> 0, d |-> 0]

\* The four options of the radio button
TransTypes == {"Expense", "Income", "Debt Given", "Debt Repaid"}

Date(y, m, d) == [y |-> y, m |-> m, d |-> d]

\* A date cell of the workbook: a datetime cell, a text cell of the form
\* YYYY-MM-DD, a text cell of any other form, or an empty cell
DtCell(y, m, d)  == [k |-> "dt", y |-> y, m |-> m, d |-> d]
TxtCell(y, m, d) == [k |-> "txt", y |-> y, m |-> m, d |-> d]
JunkCell         == [k |-> "junk", y |-> 0, m |-> 0, d |-> 0]
EmptyCell        == [k |-> "empty", y |-> 0, m |-> 0, d |-> 0]

IsLeap(y) == (y % 4 = 0 /\ y % 100 # 0) \/ y % 400 = 0

DaysInMonth(y, m) ==
    IF m = 2 THEN (IF IsLeap(y) THEN 29 ELSE 28)
    ELSE IF m \in {4, 6, 9, 11} THEN 30 ELSE 31

ValidYMD(y, m, d) ==
    /\ y >= 1
    /\ m \in 1..12
    /\ d >= 1
    /\ d <= DaysInMonth(y, m)

\* to_datetime taking any YYYY-MM-DD text for a date
to_datetime_Lenient(c) ==
    IF c.k \in {"dt", "txt"} THEN Date(c.y, c.m, c.d) ELSE NaT

\* pd.to_datetime(cell, errors='coerce')
to_datetime(c) ==
    CASE c.k = "dt"  -> Date(c.y, c.m, c.d)
      [] c.k = "txt" -> IF ValidYMD(c.y, c.m, c.d) THEN Date(c.y, c.m, c.d) ELSE NaT
      [] OTHER       -> NaT

\* The text values read_excel turns into NaN (its default na_values; the empty
\* string stands for an empty cell)
NAStrings == {"", "NA", "N/A", "NULL", "NaN", "nan", "null", "None", "n/a", "<NA>", "#N/A"}

\* pd.read_excel on a text cell
ReadText(c) == IF c \in NAStrings THEN NaN ELSE c

\* DataFrame.to_excel on a text value: NaN is written as an empty cell
WriteText(v) == IF v = NaN THEN "" ELSE v

----------------------------------------------------------------------------
(* DataFrame helpers *)

\* df.index
Index(df) == { df[k].ix : k \in 1..Len(df) }

\* ignore_index=True / reset_index(drop=True): the labels become 0..n-1
ResetIndex(df) == [k \in 1..Len(df) |-> [df[k] EXCEPT !.ix = k - 1]]

----------------------------------------------------------------------------
(* 1. Backend functions *)

\* pd.read_excel(FILE_PATH), line 20: one DataFrame row per workbook row, labelled
\* 0..n-1; the Date column still holds what the cell held
read_excel(f) ==
    [k \in 1..Len(f) |->
        [ix       |-> k - 1,
         Date     |-> f[k].Date,
         Type     |-> ReadText(f[k].Type),
         Category |-> ReadText(f[k].Category),
         Amount   |-> f[k].Amount,
         Notes    |-> ReadText(f[k].Notes)]]

\* line 24: df["Date"] = pd.to_datetime(df["Date"], errors='coerce')
ParseDates(df) == [k \in 1..Len(df) |-> [df[k] EXCEPT !.Date = to_datetime(df[k].Date)]]

\* load_data with line 27 forgotten
dropna_Nothing(df) == df

\* line 27: df.dropna(subset=["Date"]); the labels of the rows kept do not change
dropna(df) == SelectSeq(df, LAMBDA r : r.Date # NaT)

\* to_excel on a date: a datetime cell, and an empty cell for NaT
WriteDate(v) == IF v = NaT THEN EmptyCell ELSE DtCell(v.y, v.m, v.d)

\* df.to_excel(FILE_PATH, index=False), lines 47 and 57: the labels are not written
to_excel(df) ==
    [k \in 1..Len(df) |->
        [Date     |-> WriteDate(df[k].Date),
         Type     |-> WriteText(df[k].Type),
         Category |-> WriteText(df[k].Category),
         Amount   |-> df[k].Amount,
         Notes    |-> WriteText(df[k].Notes)]]

\* load_data(), the DataFrame returned
load_data(ex, f) ==
    IF ~ex THEN << >>
    ELSE dropna(ParseDates(read_excel(f)))

\* load_data(), the workbook it leaves: lines 15-17 create it when it is absent
FileAfterLoad(ex, f) == IF ~ex THEN << >> ELSE f

\* lines 36-42: the one-row DataFrame of save_data
new_data(date, trans_type, category, amount, notes) ==
    << [ix |-> 0, Date |-> date, Type |-> trans_type, Category |-> category,
        Amount |-> amount, Notes |-> notes] >>

\* save_data(...), the workbook it leaves
save_data(ex, f, date, trans_type, category, amount, notes) ==
    to_excel(ResetIndex(load_data(ex, f)
                        \o new_data(date, trans_type, category, amount, notes)))

\* The check of line 54 as a range check on the number of rows
InIndex_Range(original_index, df) == 0 <= original_index /\ original_index < Len(df)

\* line 54: original_index in df.index
InIndex(original_index, df) == original_index \in Index(df)

\* A drop that also takes the rows after the one named
drop_Tail(df, original_index) == SelectSeq(df, LAMBDA r : r.ix < original_index)

\* line 55: df.drop(original_index)
drop(df, original_index) == SelectSeq(df, LAMBDA r : r.ix # original_index)

\* delete_data with lines 56-57 moved out of the if
delete_data_AlwaysWrite(ex, f, original_index) ==
    LET df == load_data(ex, f) IN
    IF original_index \in Index(df)
    THEN [ret |-> TRUE,  wrote |-> TRUE,
          file |-> to_excel(ResetIndex(SelectSeq(df, LAMBDA r : r.ix # original_index)))]
    ELSE [ret |-> FALSE, wrote |-> TRUE, file |-> to_excel(ResetIndex(df))]

\* delete_data(original_index): what it returns and the workbook it leaves
delete_data(ex, f, original_index) ==
    LET df == load_data(ex, f) IN
    IF InIndex(original_index, df)
    THEN [ret |-> TRUE,  wrote |-> TRUE,
          file |-> to_excel(ResetIndex(drop(df, original_index)))]
    ELSE [ret |-> FALSE, wrote |-> FALSE, file |-> FileAfterLoad(ex, f)]

----------------------------------------------------------------------------
(* 3. Filter logic and tab 1 *)

\* The filter with the year forgotten
FilterByMonth_AnyYear(df, year, month) ==
    IF df = << >> THEN << >>
    ELSE SelectSeq(df, LAMBDA r : r.Date.m = month)

\* lines 85-92
FilterByMonth(df, year, month) ==
    IF df = << >> THEN << >>
    ELSE SelectSeq(df, LAMBDA r : r.Date.y = year /\ r.Date.m = month)

\* df[df["Type"].isin(types)]
IsIn(df, types) == SelectSeq(df, LAMBDA r : r.Type \in types)

RECURSIVE SumAmount(_)
\* df["Amount"].sum()
SumAmount(df) == IF df = << >> THEN 0 ELSE Head(df).Amount + SumAmount(Tail(df))

\* money_in with the debts repaid forgotten
MoneyIn_IncomeOnly(df) == SumAmount(SelectSeq(df, LAMBDA r : r.Type = "Income"))

\* line 104
MoneyIn(df) == SumAmount(IsIn(df, {"Income", "Debt Repaid"}))

\* line 105
MoneyOut(df) == SumAmount(IsIn(df, {"Expense", "Debt Given"}))

\* line 106
Balance(in, out) == in - out

----------------------------------------------------------------------------
(* Inputs *)

\* What the sidebar offers (line 68 offers 2023..2029 and line 75 the twelve months)
SelYears  == {2023, 2024}
SelMonths == {3, 4}

\* What the widgets of the entry form hold when it is submitted (lines 144,
\* 162-169): each transaction type, an amount of 0, an empty category, a
\* category read_excel takes for a missing value, notes empty and not
FormInputs ==
    { [Date |-> Date(2024, 3, 15), Type |-> "Expense",     Category |-> "Food",
       Amount |-> 1, Notes |-> ""],
      [Date |-> Date(2024, 3, 15), Type |-> "Income",      Category |-> "NA",
       Amount |-> 2, Notes |-> ""],
      [Date |-> Date(2024, 4, 2),  Type |-> "Debt Given",  Category |-> "Asha",
       Amount |-> 2, Notes |-> "loan"],
      [Date |-> Date(2024, 4, 2),  Type |-> "Debt Repaid", Category |-> "Asha",
       Amount |-> 1, Notes |-> "back"],
      [Date |-> Date(2024, 3, 15), Type |-> "Expense",     Category |-> "",
       Amount |-> 1, Notes |-> ""],
      [Date |-> Date(2024, 4, 2),  Type |-> "Income",      Category |-> "Salary",
       Amount |-> 0, Notes |-> "pay"],
      [Date |-> Date(2024, 3, 15), Type |-> "Debt Given",  Category |-> "",
       Amount |-> 0, Notes |-> ""] }

NoRec == [Date |-> NaT, Type |-> "", Category |-> "", Amount |-> 0, Notes |-> ""]

\* The ids a delete is tried with
Ids == -1..MaxRows

\* Rows of a workbook the user edited outside the application
InitRows ==
    { [Date |-> DtCell(2024, 3, 5),   Type |-> "Expense",     Category |-> "Food",
       Amount |-> 2, Notes |-> ""],
      [Date |-> TxtCell(2023, 3, 9),  Type |-> "Transfer",    Category |-> "Bank",
       Amount |-> 4, Notes |-> "moved"],
      [Date |-> TxtCell(2024, 2, 30), Type |-> "Income",      Category |-> "Salary",
       Amount |-> 3, Notes |-> ""],
      [Date |-> JunkCell,             Type |-> "Debt Given",  Category |-> "Asha",
       Amount |-> 1, Notes |-> ""],
      [Date |-> EmptyCell,            Type |-> "Debt Repaid", Category |-> "Asha",
       Amount |-> 1, Notes |-> ""] }

InitFiles == UNION { [1..n -> InitRows] : n \in 0..MaxRows }

----------------------------------------------------------------------------
(* The script *)

\* lines 82-106 of one run of the script over the DataFrame line 82 loaded
Render(df) ==
    LET shown == FilterByMonth(df, selected'.year, selected'.month) IN
    /\ all_data' = df
    /\ filtered_df' = shown
    /\ money_in'  = IF shown # << >> THEN MoneyIn(shown) ELSE 0
    /\ money_out' = IF shown # << >> THEN MoneyOut(shown) ELSE 0
    /\ balance'   = IF shown # << >> THEN Balance(MoneyIn(shown), MoneyOut(shown)) ELSE 0

\* The check of line 175 letting an amount of 0 through
Validate_ZeroAllowed(amount_val, category_val) ==
    IF amount_val < 0 THEN "amount_error"
    ELSE IF category_val = "" THEN "category_error"
    ELSE "save"

\* lines 175-180: the branch the submit handler takes
Validate(amount_val, category_val) ==
    IF amount_val <= 0 THEN "amount_error"
    ELSE IF category_val = "" THEN "category_error"
    ELSE "save"

\* lines 214-218: what the delete handler reports
DeleteReport(deleted) == IF deleted THEN "deleted" ELSE "not_found"

\* lines 202-205: the ids of the options of the select box
delete_options(df) == Index(df)

InitStore ==
    /\ op = "start"
    /\ pre = [exists |-> exists, file |-> file]
    /\ arg_index = -1
    /\ arg_rec = NoRec
    /\ ret = FALSE
    /\ saved = FALSE
    /\ wrote = FALSE
    /\ msg = "none"
    /\ selected \in [year : SelYears, month : SelMonths]
    /\ all_data = << >>
    /\ filtered_df = << >>
    /\ money_in = 0
    /\ money_out = 0
    /\ balance = 0

\* The workbook is absent, or holds whatever the user left in it
Init ==
    /\ \/ exists = FALSE /\ file = << >>
       \/ exists = TRUE /\ file \in InitFiles
    /\ InitStore

\* The workbook is absent or empty
InitFresh ==
    /\ exists \in BOOLEAN
    /\ file = << >>
    /\ InitStore

\* A run of the script after a change of the sidebar, no button pressed
SelectMonth(year, month) ==
    /\ op' = "view"
    /\ pre' = [exists |-> exists, file |-> file]
    /\ selected' = [year |-> year, month |-> month]
    /\ exists' = TRUE
    /\ file' = FileAfterLoad(exists, file)
    /\ Render(load_data(exists, file))
    /\ arg_index' = -1
    /\ arg_rec' = NoRec
    /\ ret' = FALSE
    /\ saved' = FALSE
    /\ wrote' = FALSE
    /\ msg' = "none"

\* A run with the form submitted, lines 173-182; st.rerun() runs the script again
SubmitForm(date_val, trans_type, category_val, amount_val, notes_val) ==
    LET branch == Validate(amount_val, category_val) IN
    /\ branch = "save" => Len(load_data(exists, file)) < MaxRows
    /\ op' = "submit"
    /\ pre' = [exists |-> exists, file |-> file]
    /\ arg_rec' = [Date |-> date_val, Type |-> trans_type, Category |-> category_val,
                   Amount |-> amount_val, Notes |-> notes_val]
    /\ arg_index' = -1
    /\ exists' = TRUE
    /\ file' = IF branch = "save"
               THEN save_data(TRUE, FileAfterLoad(exists, file), date_val, trans_type,
                              category_val, amount_val, notes_val)
               ELSE FileAfterLoad(exists, file)
    /\ saved' = (branch = "save")
    /\ wrote' = (branch = "save")
    /\ msg' = IF branch = "save" THEN "saved" ELSE branch
    /\ ret' = FALSE
    /\ selected' = selected
    /\ Render(load_data(exists', file'))

\* lines 209-220 with id_to_delete = id, then the rerun of line 216
DeleteHandler(id) ==
    LET res == delete_data(TRUE, FileAfterLoad(exists, file), id) IN
    /\ op' = "delete"
    /\ pre' = [exists |-> exists, file |-> file]
    /\ arg_index' = id
    /\ arg_rec' = NoRec
    /\ exists' = TRUE
    /\ file' = res.file
    /\ ret' = res.ret
    /\ wrote' = res.wrote
    /\ saved' = FALSE
    /\ msg' = DeleteReport(res.ret)
    /\ selected' = selected
    /\ Render(load_data(exists', file'))

\* A run with the delete button pressed: the id is one the select box offers
ClickDelete(id) ==
    /\ load_data(exists, file) # << >>
    /\ id \in delete_options(load_data(exists, file))
    /\ DeleteHandler(id)

\* delete_data reached with an id the select box does not offer: the workbook
\* changed under the session, or the function is called directly
DeleteOther(id) ==
    /\ id \notin delete_options(load_data(exists, file))
    /\ DeleteHandler(id)

Next ==
    \/ \E year \in SelYears, month \in SelMonths : SelectMonth(year, month)
    \/ \E form \in FormInputs :
            SubmitForm(form.Date, form.Type, form.Category, form.Amount, form.Notes)
    \/ \E id \in Ids : ClickDelete(id)
    \/ \E id \in Ids : DeleteOther(id)

Spec == Init /\ [][Next]_vars

SpecFresh == InitFresh /\ [][Next]_vars

----------------------------------------------------------------------------
(* Vocabulary of the properties, independent of the operators above *)

\* The fields of a DataFrame row, without its label
Data(r) == [Date |-> r.Date, Type |-> r.Type, Category |-> r.Category,
            Amount |-> r.Amount, Notes |-> r.Notes]

\* The j-th smallest element of a set of integers
Nth(S, j) == CHOOSE k \in S : Cardinality({ i \in S : i <= k }) = j

RECURSIVE SumOver(_, _)
\* The sum of Amount over the rows of df at the positions in S
SumOver(S, df) ==
    IF S = {} THEN 0
    ELSE LET k == CHOOSE x \in S : TRUE IN df[k].Amount + SumOver(S \ {k}, df)

\* Lengths of the months of a common year
MonthLengths == << 31, 28, 31, 30, 31, 30, 31, 31, 30, 31, 30, 31 >>

\* y-m-d is a day of the calendar
CalendarDay(y, m, d) ==
    /\ y > 0
    /\ m \in DOMAIN MonthLengths
    /\ d > 0
    /\ \/ d <= MonthLengths[m]
       \/ m = 2 /\ d = 29 /\ (y % 400 = 0 \/ (y % 4 = 0 /\ y % 100 # 0))

\* The cell holds a date: a datetime cell, or text that spells a day of the calendar
HoldsDate(c) ==
    \/ c.k = "dt" /\ CalendarDay(c.y, c.m, c.d)
    \/ c.k = "txt" /\ CalendarDay(c.y, c.m, c.d)

\* The positions of the rows of a workbook whose Date holds a date
DatedRows(f) == { k \in 1..Len(f) : HoldsDate(f[k].Date) }

\* What load_data() returned when the last operation started
Before == load_data(pre.exists, pre.file)

----------------------------------------------------------------------------
(* C1 *)

\* The positions of the rows of filtered_df with one of the given types
RowsOfType(types) == { k \in 1..Len(filtered_df) : filtered_df[k].Type \in types }

\* C1: whenever the dashboard shows its metrics, money_in is the sum of Amount over
\* the rows of type Income or Debt Repaid, money_out the sum over the rows of type
\* Expense or Debt Given, the two together count every row of one of the four types
\* exactly once, and balance is money_in - money_out.
C1_Totals ==
    filtered_df # << >> =>
        /\ money_in = SumOver(RowsOfType({"Income", "Debt Repaid"}), filtered_df)
        /\ money_out = SumOver(RowsOfType({"Expense", "Debt Given"}), filtered_df)
        /\ money_in + money_out = SumOver(RowsOfType(TransTypes), filtered_df)
        /\ balance = money_in - money_out

\* The dashboard shows money coming in and more money going out
C1_Witness ==
    /\ RowsOfType({"Income", "Debt Repaid"}) # {}
    /\ RowsOfType({"Expense", "Debt Given"}) # {}
    /\ money_in > 0
    /\ balance < 0

----------------------------------------------------------------------------
(* C8 *)

\* The positions of the rows of all_data dated in the selected month of the
\* selected year
InSelectedMonth ==
    { k \in 1..Len(all_data) :
        all_data[k].Date.y = selected.year /\ all_data[k].Date.m = selected.month }

\* C8: filtered_df holds exactly the rows of all_data whose date has the selected
\* year and the selected month, in the order all_data has them.
C8_MonthFilter ==
    /\ Len(filtered_df) = Cardinality(InSelectedMonth)
    /\ \A j \in 1..Len(filtered_df) : filtered_df[j] = all_data[Nth(InSelectedMonth, j)]

\* One row of March 2024 and one of April 2024, filtered with year 2024 and month 3,
\* give the March row alone
C8_Witness ==
    /\ Len(all_data) = 2
    /\ \E a, b \in 1..2 :
        /\ all_data[a].Date.y = 2024 /\ all_data[a].Date.m = 3
        /\ all_data[b].Date.y = 2024 /\ all_data[b].Date.m = 4
        /\ selected = [year |-> 2024, month |-> 3]
        /\ filtered_df = << all_data[a] >>

----------------------------------------------------------------------------
(* The store *)

\* The fields of the rows of a DataFrame, in order
DataSeq(df) == [k \in 1..Len(df) |-> Data(df[k])]

\* df without the row at ordinal position p (1-based)
RemoveAt(df, p) == [k \in 1..(Len(df) - 1) |-> IF k < p THEN df[k] ELSE df[k + 1]]

\* Every row of the workbook holds a date
AllDated(f) == DatedRows(f) = 1..Len(f)

\* Notes are optional: no text and a missing value are the same notes
SameNotes(a, b) == a = b \/ {a, b} \subseteq {"", NaN}

\* C2: after a delete_data(i) that returned True, load_data() returns the rows it
\* returned before with exactly one row removed, the others in the same order,
\* labelled 0..n-2.
C2_DeleteReload ==
    (op = "delete" /\ ret) =>
        /\ Len(all_data) = Len(Before) - 1
        /\ \E p \in 1..Len(Before) : DataSeq(all_data) = DataSeq(RemoveAt(Before, p))
        /\ \A k \in 1..Len(all_data) : all_data[k].ix = k - 1

\* A row that is not the last one was deleted, so rows moved down
C2_Witness ==
    /\ op = "delete"
    /\ ret
    /\ Len(Before) = 3
    /\ DataSeq(all_data) = DataSeq(RemoveAt(Before, 1))
    /\ Before[1] # Before[2]

\* C3, as claimed: delete_data(i) returns True exactly when 0 <= i < n, n the
\* number of rows load_data() returns, and removes the row at ordinal position i
\* of that sequence.
C3_Original ==
    op = "delete" =>
        /\ ret <=> (0 <= arg_index /\ arg_index < Len(Before))
        /\ ret => DataSeq(all_data) = DataSeq(RemoveAt(Before, arg_index + 1))

\* C3, amended: delete_data(i) returns True exactly when i is the 0-based position
\* in the workbook of a row whose Date parses (the label load_data() gives that
\* row), and it removes that row; when every row of the workbook holds a date
\* this is 0 <= i < n and the row at ordinal position i.
C3_DeleteByLabel ==
    op = "delete" =>
        /\ ret <=> (arg_index + 1) \in DatedRows(pre.file)
        /\ ret => \E p \in 1..Len(Before) :
                    /\ Before[p].ix = arg_index
                    /\ DataSeq(all_data) = DataSeq(RemoveAt(Before, p))
        /\ AllDated(pre.file) =>
            /\ ret <=> (0 <= arg_index /\ arg_index < Len(Before))
            /\ ret => DataSeq(all_data) = DataSeq(RemoveAt(Before, arg_index + 1))

\* A delete by an id that is not the ordinal position of the row it removes
C3_Witness ==
    /\ op = "delete"
    /\ ret
    /\ ~AllDated(pre.file)
    /\ Len(Before) = 2
    /\ arg_index = 2

\* C4: when delete_data(i) returns False the workbook holds the rows it held, line
\* 57 did not run, and the handler reports that it could not find the row.
C4_FailedDelete ==
    (op = "delete" /\ ~ret) =>
        /\ file = pre.file
        /\ ~wrote
        /\ msg = "not_found"

\* A failed delete on a workbook that a rewrite would have changed
C4_Witness ==
    /\ op = "delete"
    /\ ~ret
    /\ pre.exists
    /\ ~AllDated(pre.file)
    /\ arg_index \in 0..(Len(pre.file) - 1)

\* C5: a submit calls save_data exactly when amount > 0 and the category is not
\* empty; otherwise the workbook holds the rows it held and an error is shown.
C5_Validation ==
    op = "submit" =>
        /\ saved <=> (arg_rec.Amount > 0 /\ arg_rec.Category # "")
        /\ ~saved =>
            /\ file = pre.file
            /\ ~wrote
            /\ msg \in {"amount_error", "category_error"}

\* A submit with amount 0 and a category, over a workbook that holds rows
C5_Witness ==
    /\ op = "submit"
    /\ arg_rec.Amount = 0
    /\ arg_rec.Category # ""
    /\ ~saved
    /\ pre.file # << >>

\* C6, as claimed: after save_data(r), load_data() returns the rows it returned
\* before, unchanged and in the same order, and then one row whose Date, Type,
\* Category, Amount and Notes are those of r.
C6_Original ==
    (op = "submit" /\ saved) =>
        /\ Len(all_data) = Len(Before) + 1
        /\ \A k \in 1..Len(Before) : Data(all_data[k]) = Data(Before[k])
        /\ LET last == all_data[Len(all_data)] IN
            /\ last.Date = arg_rec.Date
            /\ last.Type = arg_rec.Type
            /\ last.Category = arg_rec.Category
            /\ last.Amount = arg_rec.Amount
            /\ SameNotes(last.Notes, arg_rec.Notes)

\* C7: load_data() returns the rows of the workbook whose Date parses to a day of
\* the calendar, in the order of the workbook and under the label of their
\* position, reports nothing, and leaves the workbook as it is; when the workbook
\* is absent it creates an empty one and returns no row.
C7_Load ==
    op = "view" =>
        /\ exists
        /\ msg = "none"
        /\ ~pre.exists => (file = << >> /\ all_data = << >>)
        /\ pre.exists =>
            /\ file = pre.file
            /\ Len(all_data) = Cardinality(DatedRows(file))
            /\ \A j \in 1..Len(all_data) :
                LET k == Nth(DatedRows(file), j) IN
                /\ all_data[j].ix = k - 1
                /\ all_data[j].Date = Date(file[k].Date.y, file[k].Date.m, file[k].Date.d)
                /\ all_data[j].Type = file[k].Type
                /\ all_data[j].Amount = file[k].Amount

\* A load that keeps a row dated in text and drops a row before it
C7_Witness ==
    /\ op = "view"
    /\ Len(file) = 3
    /\ Len(all_data) = 2
    /\ all_data[1].ix = 1
    /\ file[2].Date.k = "txt"

\* C9, as claimed: every row of the workbook has an amount >= 0, a category that is
\* not empty, a date and one of the four types.
C9_Original ==
    \A k \in 1..Len(file) :
        /\ file[k].Amount >= 0
        /\ file[k].Category # ""
        /\ HoldsDate(file[k].Date)
        /\ file[k].Type \in TransTypes

\* C10: a run that only loads, and a delete that returns False, leave every row of
\* the workbook in place, the rows without a date too; a save and a delete that
\* returns True rewrite the workbook, which then holds the rows that had a date,
\* plus or minus one, and no row without a date.
C10_UndatedRows ==
    /\ (op = "view" \/ (op = "delete" /\ ~ret)) => (pre.exists => file = pre.file)
    /\ (op = "submit" /\ saved) =>
        /\ wrote
        /\ AllDated(file)
        /\ Len(file) = Cardinality(DatedRows(pre.file)) + 1
    /\ (op = "delete" /\ ret) =>
        /\ wrote
        /\ AllDated(file)
        /\ Len(file) = Cardinality(DatedRows(pre.file)) - 1

\* A save over a workbook with two rows without a date
C10_Witness ==
    /\ op = "submit"
    /\ saved
    /\ Len(pre.file) = 3
    /\ Cardinality(DatedRows(pre.file)) = 1
    /\ Len(file) = 2

====
